---- MODULE Spec2Model ----
(***************************************************************************)
(* Commit-notification bot: change detection, enrichment, formatting,      *)
(* delivery and cursor persistence of the poll cycle.                      *)
(*                                                                         *)
(* Two pollers exist in the sources and both are modelled:                 *)
(*   variant "single"  bot.js: one repository, cursor read from the        *)
(*                     tracker file (commit-tracker.js);                   *)
(*   variant "multi"   the REPO_CONFIG poller: one cycle function per      *)
(*                     configured repository, cursor read from the         *)
(*                     destination channel's history.                      *)
(* Texts are TLA+ strings; the footer separator ' <bullet> ' of the source *)
(* is written " * " and the code fence of the file list "'''", because   *)
(* the module is ASCII.                                                    *)
(***************************************************************************)
EXTENDS Integers, Sequences, FiniteSets, TLC

\* ---------------------------------------------------------------- bounds
MaxCommits == 3      \* commits a repository history may ever hold
MaxMessages == 3     \* notifications delivered, over all channels
ProbeCommits == 5    \* commits the windows given to detection are drawn from
MaxTitle == 103      \* longest first line given to the title formatter
MaxCount == 4        \* most files of one kind given to the change statistics
MaxInFlight == 2     \* cycles that may be in flight at once
MaxBatch == 2        \* commits in one push payload
MaxBatchFiles == 1   \* most files of one kind in a commit of a push payload
MaxPosts == 3        \* messages of any kind posted to a probed channel ...
MaxLater == 11       \* ... and user messages posted after them
MaxCallers == 3      \* concurrent callers of ensureDataDirectory
MaxCalls == 2        \* calls of ensureDataDirectory per caller
MaxTicks == 32       \* interval ticks of one repository on the timer clock

\* ------------------------------------------------------ program constants
PER_PAGE == 20       \* fetchLatestCommits(owner, repo, 20)
HISTORY_LIMIT == 10  \* channel.messages.fetch({ limit: 10 })
SHORT_LEN == 7       \* commit.id.substring(0, 7)
MAX_FILES == 10      \* allFiles.length > 10
GREEN == 2664261     \* 0x28a745
RED == 14431557      \* 0xdc3545
ORANGE == 16761095   \* 0xffc107
PURPLE == 7291585    \* 0x6f42c1
TITLE_MAX == 100     \* title.length > 100
TITLE_KEEP == 97     \* title.substring(0, 97)
INITIAL_DELAY == 5000     \* setTimeout(pollForCommits, 5000 + ...)
STAGGER == 2000           \* ... REPO_CONFIG.indexOf(repoConfig) * 2000
CHECK_INTERVAL == 180000  \* const checkInterval = 3 * 60 * 1000

null == "<null>"
undefined == "<undefined>"
SEPARATOR == " * "
NO_CHANGES == "No changes"
NO_FILES == "No files changed"
FENCE == "'''"

\* REPO_CONFIG: index -> target.  The single-repository poller has the one
\* hard-coded target, which is REPO_CONFIG[1].
REPO_CONFIG ==
  << [owner |-> "OMGLASERSPEWPEWPEW", repo |-> "berghain-bot",
      channelId |-> "1412917309328195644", displayName |-> "Berghain Bot"],
     [owner |-> "OMGLASERSPEWPEWPEW", repo |-> "GlyffitiMobile",
      channelId |-> "1332457876643516416", displayName |-> "Glyffiti Mobile"] >>

AllRepos == 1..Len(REPO_CONFIG)
Slots == 1..MaxInFlight

Min(a, b) == IF a < b THEN a ELSE b

\* JavaScript truthiness of a string, null or undefined
Falsy(v) == v = null \/ v = undefined \/ v = ""

\* Array.prototype.reverse
RECURSIVE Reverse(_)
Reverse(s) == IF s = <<>> THEN <<>> ELSE Append(Reverse(Tail(s)), Head(s))

\* Array.prototype.slice(0, n)
SliceTo(s, n) == SubSeq(s, 1, Min(n, Len(s)))

\* Array.prototype.join
RECURSIVE Join(_, _)
Join(parts, sep) ==
  IF parts = <<>> THEN ""
  ELSE IF Len(parts) = 1 THEN parts[1]
  ELSE parts[1] \o sep \o Join(Tail(parts), sep)

\* A substring that keeps the whole text
Substring0_Whole(str, n) == str

\* String.prototype.substring(0, n)
Substring0(str, n) == SubSeq(str, 1, Min(n, Len(str)))

\* String.prototype.split(sep)[0]: the text before the first occurrence of
\* sep, the whole text when sep does not occur
RECURSIVE SplitFirstFrom(_, _, _)
SplitFirstFrom(str, sep, i) ==
  IF i + Len(sep) - 1 > Len(str) THEN str
  ELSE IF SubSeq(str, i, i + Len(sep) - 1) = sep THEN SubSeq(str, 1, i - 1)
  ELSE SplitFirstFrom(str, sep, i + 1)

SplitFirst(str, sep) == SplitFirstFrom(str, sep, 1)

\* ------------------------------------------------------ the source (GitHub)
\* Commit n of repository r as the commits endpoint returns it.  The sha is
\* 8 characters here (40 at GitHub); its first 7 identify the commit.
GithubSha(r, n) == ToString(r) \o ToString(n) \o "abcdef"

GithubCommit(r, n) ==
  [ sha      |-> GithubSha(r, n),
    message  |-> "change " \o ToString(n),
    date     |-> "2025-09-0" \o ToString(n) \o "T10:00:00Z",
    html_url |-> "https://github.com/" \o REPO_CONFIG[r].owner \o "/"
                   \o REPO_CONFIG[r].repo \o "/commit/" \o GithubSha(r, n),
    name     |-> "dev" ]

\* The files of commit n as the single-commit endpoint returns them.
GithubFiles(n) ==
  CASE n = 1 -> << [status |-> "added", filename |-> "a.js"] >>
    [] n = 2 -> << [status |-> "modified", filename |-> "m.js"],
                   [status |-> "removed", filename |-> "r.js"] >>
    [] n = 3 -> << [status |-> "added", filename |-> "b.js"],
                   [status |-> "removed", filename |-> "a.js"] >>
    [] OTHER -> << [status |-> "modified", filename |-> "m.js"] >>

\* ---------------------------------------------------------- github-service
transformCommitData(githubCommit) ==
  [ id        |-> githubCommit.sha,
    sha       |-> githubCommit.sha,
    message   |-> githubCommit.message,
    timestamp |-> githubCommit.date,
    url       |-> githubCommit.html_url,
    author    |-> [name |-> githubCommit.name],
    added     |-> <<>>,
    modified  |-> <<>>,
    removed   |-> <<>> ]

RECURSIVE MapTransform(_)
MapTransform(raw) ==
  IF raw = <<>> THEN <<>>
  ELSE <<transformCommitData(Head(raw))>> \o MapTransform(Tail(raw))

\* fetchLatestCommits: the first limit commits, newest first; a failed
\* request throws.
fetchLatestCommits(ok, history, limit) ==
  IF ok THEN [threw |-> FALSE, value |-> MapTransform(SliceTo(history, limit))]
  ELSE [threw |-> TRUE, value |-> <<>>]

\* findIndex(commit => commit.sha === lastSeenCommitHash); 0 stands for -1,
\* indices are 1-based
RECURSIVE FindIndexFrom(_, _, _)
FindIndexFrom(allCommits, hash, i) ==
  IF i > Len(allCommits) THEN 0
  ELSE IF allCommits[i].sha = hash THEN i
  ELSE FindIndexFrom(allCommits, hash, i + 1)

\* A search that takes a commit whose sha starts with the hash
FindIndex_ByPrefix(allCommits, hash) ==
  LET found == {i \in 1..Len(allCommits) :
                  Substring0(allCommits[i].sha, Len(hash)) = hash}
  IN  IF found = {} THEN 0
      ELSE CHOOSE i \in found : \A j \in found : i <= j

FindIndex(allCommits, hash) == FindIndexFrom(allCommits, hash, 1)

\* Detection that forgets .reverse(): the new commits newest first
checkForNewCommits_NotReversed(ok, history, lastSeenCommitHash) ==
  LET fetched == fetchLatestCommits(ok, history, PER_PAGE)
      allCommits == fetched.value
      lastSeenIndex == FindIndex(allCommits, lastSeenCommitHash)
  IN  IF fetched.threw THEN [threw |-> FALSE, value |-> <<>>]
      ELSE IF Falsy(lastSeenCommitHash) \/ lastSeenIndex = 0
        THEN [threw |-> FALSE, value |-> SliceTo(allCommits, 1)]
      ELSE [threw |-> FALSE, value |-> SliceTo(allCommits, lastSeenIndex - 1)]

\* Detection without the first-run guard: findIndex gives -1 for no cursor
\* and slice(0, -1) all commits but the oldest
checkForNewCommits_FirstRunFlood(ok, history, lastSeenCommitHash) ==
  LET fetched == fetchLatestCommits(ok, history, PER_PAGE)
      allCommits == fetched.value
      lastSeenIndex == FindIndex(allCommits, lastSeenCommitHash)
  IN  IF fetched.threw THEN [threw |-> FALSE, value |-> <<>>]
      ELSE IF Falsy(lastSeenCommitHash)
        THEN [threw |-> FALSE,
              value |-> Reverse(SliceTo(allCommits, Len(allCommits) - 1))]
      ELSE IF lastSeenIndex = 0
        THEN [threw |-> FALSE, value |-> SliceTo(allCommits, 1)]
      ELSE [threw |-> FALSE,
            value |-> Reverse(SliceTo(allCommits, lastSeenIndex - 1))]

\* Detection without the not-found guard: a cursor that is not in the
\* window gives the whole window, oldest first
checkForNewCommits_AbsentFlood(ok, history, lastSeenCommitHash) ==
  LET fetched == fetchLatestCommits(ok, history, PER_PAGE)
      allCommits == fetched.value
      lastSeenIndex == FindIndex(allCommits, lastSeenCommitHash)
  IN  IF fetched.threw THEN [threw |-> FALSE, value |-> <<>>]
      ELSE IF Falsy(lastSeenCommitHash)
        THEN [threw |-> FALSE, value |-> SliceTo(allCommits, 1)]
      ELSE IF lastSeenIndex = 0
        THEN [threw |-> FALSE, value |-> Reverse(allCommits)]
      ELSE [threw |-> FALSE,
            value |-> Reverse(SliceTo(allCommits, lastSeenIndex - 1))]

\* checkForNewCommits(owner, repo, lastSeenCommitHash), given the outcome of
\* its fetchLatestCommits call.  It catches every error and returns [].
\* Detection that lets the error of the commits request through
checkForNewCommits_Rethrows(ok, history, lastSeenCommitHash) ==
  LET fetched == fetchLatestCommits(ok, history, PER_PAGE)
      allCommits == fetched.value
      lastSeenIndex == FindIndex(allCommits, lastSeenCommitHash)
  IN  IF fetched.threw THEN [threw |-> TRUE, value |-> <<>>]
      ELSE IF Falsy(lastSeenCommitHash) \/ lastSeenIndex = 0
        THEN [threw |-> FALSE, value |-> SliceTo(allCommits, 1)]
      ELSE [threw |-> FALSE,
            value |-> Reverse(SliceTo(allCommits, lastSeenIndex - 1))]

checkForNewCommits(ok, history, lastSeenCommitHash) ==
  LET fetched == fetchLatestCommits(ok, history, PER_PAGE)
      allCommits == fetched.value
      lastSeenIndex == FindIndex(allCommits, lastSeenCommitHash)
  IN  IF fetched.threw THEN [threw |-> FALSE, value |-> <<>>]
      ELSE IF Falsy(lastSeenCommitHash)
        THEN [threw |-> FALSE, value |-> SliceTo(allCommits, 1)]
      ELSE IF lastSeenIndex = 0
        THEN [threw |-> FALSE, value |-> SliceTo(allCommits, 1)]
      ELSE [threw |-> FALSE,
            value |-> Reverse(SliceTo(allCommits, lastSeenIndex - 1))]

\* files.filter(f => f.status === status).map(f => f.filename)
RECURSIVE FilesWithStatus(_, _)
FilesWithStatus(files, status) ==
  IF files = <<>> THEN <<>>
  ELSE (IF Head(files).status = status THEN <<Head(files).filename>> ELSE <<>>)
       \o FilesWithStatus(Tail(files), status)

\* Enrichment without its catch block: a failed request throws
fetchCommitDetails_Throws(ok, files) ==
  [threw |-> ~ok,
   added    |-> IF ok THEN FilesWithStatus(files, "added") ELSE <<>>,
   modified |-> IF ok THEN FilesWithStatus(files, "modified") ELSE <<>>,
   removed  |-> IF ok THEN FilesWithStatus(files, "removed") ELSE <<>>]

\* fetchCommitDetails(owner, repo, commitSha), given the outcome of its
\* request.  It catches every error and returns the empty change sets.
fetchCommitDetails(ok, files) ==
  IF ok
    THEN [threw |-> FALSE,
          added    |-> FilesWithStatus(files, "added"),
          modified |-> FilesWithStatus(files, "modified"),
          removed  |-> FilesWithStatus(files, "removed")]
    ELSE [threw |-> FALSE, added |-> <<>>, modified |-> <<>>, removed |-> <<>>]

\* { ...commit, ...details }
Enhance(commit, details) ==
  [commit EXCEPT !.added = details.added,
                 !.modified = details.modified,
                 !.removed = details.removed]

\* --------------------------------------------------------- commit-formatter
RECURSIVE calculateTotalChanges(_)
calculateTotalChanges(commits) ==
  IF commits = <<>> THEN [added |-> 0, removed |-> 0, modified |-> 0]
  ELSE LET rest == calculateTotalChanges(Tail(commits))
           c == Head(commits)
       IN  [added    |-> Len(c.added) + rest.added,
            removed  |-> Len(c.removed) + rest.removed,
            modified |-> Len(c.modified) + rest.modified]

\* Change statistics joined with a comma
formatChangeStats_Commas(stats) ==
  LET parts ==
        (IF stats.added > 0 THEN <<"+" \o ToString(stats.added)>> ELSE <<>>)
        \o (IF stats.removed > 0 THEN <<"-" \o ToString(stats.removed)>> ELSE <<>>)
        \o (IF stats.modified > 0 THEN <<"~" \o ToString(stats.modified)>> ELSE <<>>)
  IN  IF Len(parts) > 0 THEN Join(parts, ", ") ELSE NO_CHANGES

\* A title cut at the limit itself, the marker added after it
formatCommitMessage_CutAtMax(message) ==
  LET title == SplitFirst(message, "\n")
  IN  IF Len(title) > TITLE_MAX THEN Substring0(title, TITLE_MAX) \o "..."
      ELSE title

\* formatCommitMessage(message): message.split('\n')[0], cut when too long
formatCommitMessage(message) ==
  LET title == SplitFirst(message, "\n")
  IN  IF Len(title) > TITLE_MAX THEN Substring0(title, TITLE_KEEP) \o "..."
      ELSE title

formatChangeStats(stats) ==
  LET parts ==
        (IF stats.added > 0 THEN <<"+" \o ToString(stats.added)>> ELSE <<>>)
        \o (IF stats.removed > 0 THEN <<"-" \o ToString(stats.removed)>> ELSE <<>>)
        \o (IF stats.modified > 0 THEN <<"~" \o ToString(stats.modified)>> ELSE <<>>)
  IN  IF Len(parts) > 0 THEN Join(parts, " ") ELSE NO_CHANGES

RECURSIVE Prefixed(_, _)
Prefixed(mark, files) ==
  IF files = <<>> THEN <<>>
  ELSE <<mark \o " " \o Head(files)>> \o Prefixed(mark, Tail(files))

\* A file list that puts the removed paths before the modified ones
formatFileChanges_RemovedFirst(commit) ==
  LET allFiles == Prefixed("+", commit.added) \o Prefixed("-", commit.removed)
                    \o Prefixed("~", commit.modified)
  IN  IF Len(allFiles) = 0 THEN NO_FILES
      ELSE IF Len(allFiles) > MAX_FILES
        THEN FENCE \o "diff\n" \o Join(SliceTo(allFiles, MAX_FILES), "\n")
               \o "\n... and " \o ToString(Len(allFiles) - MAX_FILES)
               \o " more" \o FENCE
      ELSE FENCE \o "diff\n" \o Join(allFiles, "\n") \o FENCE

formatFileChanges(commit) ==
  LET allFiles == Prefixed("+", commit.added) \o Prefixed("~", commit.modified)
                    \o Prefixed("-", commit.removed)
  IN  IF Len(allFiles) = 0 THEN NO_FILES
      ELSE IF Len(allFiles) > MAX_FILES
        THEN FENCE \o "diff\n" \o Join(SliceTo(allFiles, MAX_FILES), "\n")
               \o "\n... and " \o ToString(Len(allFiles) - MAX_FILES)
               \o " more" \o FENCE
      ELSE FENCE \o "diff\n" \o Join(allFiles, "\n") \o FENCE

\* A color chosen by comparing how many files were added and removed
getCommitColor_BySize(commit) ==
  IF Len(commit.added) > Len(commit.removed) THEN GREEN
  ELSE IF Len(commit.removed) > Len(commit.added) THEN RED
  ELSE IF Len(commit.added) > 0 THEN ORANGE
  ELSE PURPLE

getCommitColor(commit) ==
  LET hasAdditions == Len(commit.added) > 0
      hasDeletions == Len(commit.removed) > 0
  IN  IF hasAdditions /\ ~hasDeletions THEN GREEN
      ELSE IF hasDeletions /\ ~hasAdditions THEN RED
      ELSE IF hasAdditions /\ hasDeletions THEN ORANGE
      ELSE PURPLE

\* new Date(timestamp).toLocaleString(): "2025-09-0nT10:00:00Z" is rendered
\* "9/n/2025, 10:00:00 AM"
toLocaleString(timestamp) ==
  "9/" \o SubSeq(timestamp, 10, 10) \o "/2025, 10:00:00 AM"

\* createCommitEmbed(payload) for a payload with at least one commit (the
\* pollers pass exactly one); the embed is built from the last commit.
createCommitEmbed(payload) ==
  LET commit == payload.commits[Len(payload.commits)]
      totalStats == calculateTotalChanges(payload.commits)
  IN  [ color     |-> getCommitColor(commit),
        title     |-> "New commit to " \o payload.repository.name,
        url       |-> commit.url,
        changes   |-> formatChangeStats(totalStats),
        files     |-> formatFileChanges(commit),
        footer    |-> [text |-> Substring0(commit.id, SHORT_LEN) \o SEPARATOR
                                  \o toLocaleString(commit.timestamp)],
        timestamp |-> commit.timestamp ]

\* No embed built yet
NoEmbed ==
  [ color |-> 0, title |-> "", url |-> "", changes |-> "", files |-> "",
    footer |-> [text |-> ""], timestamp |-> "" ]

\* ------------------------------------------------------------ commit-tracker
\* The tracker file is "missing" or holds the record updateLastSeenCommit
\* wrote.
NoFile == [exists |-> FALSE]

\* A cursor read without the catch block's null: what could not be read
\* comes back as the text "undefined"
getLastSeenCommit_NoFallback(file, readOk) ==
  IF ~file.exists \/ ~readOk THEN "undefined"
  ELSE IF Falsy(file.lastCommitSha) THEN null
  ELSE file.lastCommitSha

\* getLastSeenCommit(): a failed read, like a missing file, gives null
getLastSeenCommit(file, readOk) ==
  IF ~file.exists \/ ~readOk THEN null
  ELSE IF Falsy(file.lastCommitSha) THEN null
  ELSE file.lastCommitSha

\* The record updateLastSeenCommit(commitSha, metadata) writes.  metadata is
\* the {} default or whatever the caller passed second; metadata.author,
\* .message and .timestamp of a string are undefined.
\* metadata is the author, message and timestamp properties of that value.
TrackerRecord(commitSha, metadata) ==
  [ exists        |-> TRUE,
    lastCommitSha |-> commitSha,
    lastUpdated   |-> "now",
    metadata      |-> [author    |-> IF Falsy(metadata.author) THEN "unknown"
                                     ELSE metadata.author,
                       message   |-> IF Falsy(metadata.message) THEN "unknown"
                                     ELSE metadata.message,
                       timestamp |-> IF Falsy(metadata.timestamp) THEN "now"
                                     ELSE metadata.timestamp] ]

\* The author, message and timestamp properties of {} and of a string
NoProperties ==
  [author |-> undefined, message |-> undefined, timestamp |-> undefined]

\* getTrackingInfo(): the parsed file, or the no-tracking answer when the
\* file is missing or cannot be read
getTrackingInfo(file, readOk) ==
  IF ~file.exists \/ ~readOk
    THEN [hasTracking |-> FALSE, lastCommitSha |-> null, lastUpdated |-> null,
          metadata |-> null]
    ELSE [hasTracking |-> TRUE, lastCommitSha |-> file.lastCommitSha,
          lastUpdated |-> file.lastUpdated, metadata |-> file.metadata]

\* --------------------------------------------------------------------- bot
BOT == "bot"

\* getLastCommitFromChannel(channelId): the text before the separator in
\* the footer of the newest of the last HISTORY_LIMIT messages that the bot
\* wrote with an embed that has a footer; null when the channel is not in
\* the cache, when reading the history throws, or when there is none.
\* messages is oldest first, as the channel receives them.
RECURSIVE FirstFooterHash(_)
FirstFooterHash(newestFirst) ==
  IF newestFirst = <<>> THEN null
  ELSE LET message == Head(newestFirst)
       IN  IF /\ message.author = BOT
              /\ Len(message.embeds) > 0
              /\ message.embeds[1].footer.text # ""
             THEN SplitFirst(message.embeds[1].footer.text, SEPARATOR)
             ELSE FirstFooterHash(Tail(newestFirst))

getLastCommitFromChannel(channelFound, fetchOk, messages) ==
  IF ~channelFound \/ ~fetchOk THEN null
  ELSE FirstFooterHash(SliceTo(Reverse(messages), HISTORY_LIMIT))

\* --------------------------------------------------------------- the state
VARIABLES
  variant,      \* which poller this deployment runs: "single" or "multi"
  github,       \* github[r]: commit numbers of repository r, newest first
  pushed,       \* pushed[r]: commits ever created in repository r
  channels,     \* channels[r]: messages of REPO_CONFIG[r].channelId, oldest first
  trackerFile,  \* data/last-commit.json
  timers,       \* timers[r]: the setTimeout and setInterval of repository r
  cycles,       \* cycles[s]: a pollForCommits call in flight
  lastError,    \* history: the error the step just taken logged, if any
  probe         \* a pure function applied to drawn inputs (function harness)

vars == <<variant, github, pushed, channels, trackerFile, timers, cycles,
          lastError, probe>>

\* The repositories the deployment polls
Repos == IF variant = "single" THEN {1} ELSE AllRepos

\* What the commits endpoint holds for repository r
History(r) == [i \in 1..Len(github[r]) |-> GithubCommit(r, github[r][i])]

NoTimers == [initial |-> FALSE, interval |-> FALSE]

\* A slot with no call in it
Idle ==
  [ pc |-> "idle", repo |-> 0, lastSeen |-> null, newCommits |-> <<>>,
    i |-> 0,
    details |-> [threw |-> FALSE, added |-> <<>>, modified |-> <<>>,
                 removed |-> <<>>],
    detailsOk |-> TRUE,
    start |-> null,     \* history: the stored cursor when the call began
    degraded |-> <<>>,  \* history: shas whose enrichment request failed
    sent |-> <<>> ]     \* history: urls of the embeds the call delivered

Active(c) == c.pc # "idle"

NoError == [repo |-> 0, stage |-> "none"]

NoProbe == [fn |-> "none"]

\* The outcomes the environment may give a call: success, and failure too
\* when faults are admitted
Outcomes(faults) == IF faults THEN BOOLEAN ELSE {TRUE}

Init ==
  /\ variant \in {"single", "multi"}
  /\ github = [r \in AllRepos |-> <<1>>]
  /\ pushed = [r \in AllRepos |-> 1]
  /\ channels = [r \in AllRepos |-> <<>>]
  /\ trackerFile = NoFile
  /\ timers = [r \in AllRepos |-> NoTimers]
  /\ cycles = [s \in Slots |-> Idle]
  /\ lastError = NoError
  /\ probe = NoProbe

\* Notifications delivered so far, over all channels
RECURSIVE SumLen(_, _)
SumLen(f, n) == IF n = 0 THEN 0 ELSE Len(f[n]) + SumLen(f, n - 1)

Delivered == SumLen(channels, Len(REPO_CONFIG))

\* The cursor a cycle of repository r reads when its read succeeds: the
\* tracker file in bot.js, the channel history in the REPO_CONFIG poller
CursorRead(r) ==
  IF variant = "single" THEN getLastSeenCommit(trackerFile, TRUE)
  ELSE getLastCommitFromChannel(TRUE, TRUE, channels[r])

\* client.once('ready'): startGitHubMonitoring registers, per repository,
\* the initial setTimeout and the repeating setInterval
Ready ==
  /\ \A r \in AllRepos : timers[r] = NoTimers
  /\ timers' = [r \in AllRepos |->
                  IF r \in Repos THEN [initial |-> TRUE, interval |-> TRUE]
                  ELSE NoTimers]
  /\ lastError' = NoError
  /\ UNCHANGED <<variant, github, pushed, channels, trackerFile, cycles, probe>>

\* pollForCommits is called for repository r and runs up to its first
\* network call, the cursor read, which gives lastSeen.  The call takes the
\* first slot that is free.
BeginCycle(r, s, lastSeen) ==
  /\ ~Active(cycles[s])
  /\ \A t \in Slots : t < s => Active(cycles[t])
  /\ cycles' = [cycles EXCEPT ![s] = [Idle EXCEPT !.pc = "detect",
                                                  !.repo = r,
                                                  !.lastSeen = lastSeen,
                                                  !.start = CursorRead(r)]]
  /\ lastError' = NoError

\* bot.js: const lastSeen = await getLastSeenCommit()
\* REPO_CONFIG poller: const lastSeen = await getLastCommitFromChannel(...)
\* Without overlap the timer fires only when no call of r is in flight.
PollStart(r, faults, overlap) ==
  /\ overlap \/ \A t \in Slots : ~(Active(cycles[t]) /\ cycles[t].repo = r)
  /\ \E s \in Slots :
       IF variant = "single"
         THEN \E readOk \in Outcomes(faults) :
                BeginCycle(r, s, getLastSeenCommit(trackerFile, readOk))
         ELSE \E channelFound \in Outcomes(faults), fetchOk \in Outcomes(faults) :
                BeginCycle(r, s, getLastCommitFromChannel(channelFound, fetchOk,
                                                          channels[r]))

\* An initial delay that is the same for every repository
InitialDelay_NoStagger(r) == INITIAL_DELAY

\* 5000 + (REPO_CONFIG.indexOf(repoConfig) * 2000): the delay, in ms after
\* the ready event, of the initial check of REPO_CONFIG[r], whose indexOf is
\* r - 1; bot.js waits 5000 for its one repository
InitialDelay(r) == INITIAL_DELAY + (r - 1) * STAGGER

\* setTimeout(pollForCommits, 5000 + index * 2000) fires: the timers set
\* at the ready event fire in the order of their delays
InitialCheck(r, faults, overlap) ==
  /\ timers[r].initial
  /\ \A q \in AllRepos : timers[q].initial => InitialDelay(r) <= InitialDelay(q)
  /\ PollStart(r, faults, overlap)
  /\ timers' = [timers EXCEPT ![r].initial = FALSE]
  /\ UNCHANGED <<variant, github, pushed, channels, trackerFile, probe>>

\* setInterval(pollForCommits, checkInterval) fires, after the initial
\* timers that are due before the first tick
IntervalTick(r, faults, overlap) ==
  /\ timers[r].interval
  /\ \A q \in AllRepos : timers[q].initial => CHECK_INTERVAL < InitialDelay(q)
  /\ PollStart(r, faults, overlap)
  /\ UNCHANGED <<variant, github, pushed, channels, trackerFile, timers,
                 probe>>

\* A catch block that also stops the repository's polling
CatchCycleError_Cancels(t, r) == [t EXCEPT ![r].interval = FALSE]

\* The catch block of pollForCommits: the error is logged.  What it leaves
\* of the timers.
CatchCycleError(t, r) == t

\* A call whose error is not caught and that never returns
Fail_Hangs(s, stage) ==
  /\ cycles' = [cycles EXCEPT ![s].pc = "hung"]
  /\ lastError' = [repo |-> cycles[s].repo, stage |-> stage]
  /\ timers' = timers

\* A call ends with an error raised at stage, caught at its boundary
Fail(s, stage) ==
  /\ cycles' = [cycles EXCEPT ![s] = Idle]
  /\ lastError' = [repo |-> cycles[s].repo, stage |-> stage]
  /\ timers' = CatchCycleError(timers, cycles[s].repo)

\* const newCommits = await checkForNewCommits(...);
\* if (newCommits.length > 0) { const channel = ...; if (channel) { for ...
\* ok: the request of checkForNewCommits succeeds; channelFound:
\* client.channels.cache.get gives the channel
DetectWith(s, ok, channelFound) ==
  LET c == cycles[s]
      res == checkForNewCommits(ok, History(c.repo), c.lastSeen)
  IN
  /\ c.pc = "detect"
  /\ IF res.threw
       THEN Fail(s, "detect")
     ELSE IF Len(res.value) > 0 /\ channelFound
       THEN /\ cycles' = [cycles EXCEPT ![s].pc = "enrich",
                                        ![s].newCommits = res.value,
                                        ![s].i = 1]
            /\ lastError' = NoError
            /\ UNCHANGED timers
     ELSE /\ cycles' = [cycles EXCEPT ![s] = Idle]
          /\ lastError' = NoError
          /\ UNCHANGED timers
  /\ UNCHANGED <<variant, github, pushed, channels, trackerFile, probe>>

Detect(s, faults) ==
  \E ok \in BOOLEAN, channelFound \in Outcomes(faults) :
    DetectWith(s, ok, channelFound)

\* The files GitHub holds for the commit with this sha
FilesOfSha(sha) ==
  GithubFiles(CHOOSE n \in 1..9 : ToString(n) = SubSeq(sha, 2, 2))

\* const details = await fetchCommitDetails(..., commit.sha)
Enrich(s) ==
  LET c == cycles[s] IN
  /\ c.pc = "enrich"
  /\ \E ok \in BOOLEAN :
       LET details == fetchCommitDetails(ok, FilesOfSha(c.newCommits[c.i].sha)) IN
       IF details.threw
         THEN Fail(s, "enrich")
         ELSE /\ cycles' = [cycles EXCEPT ![s].pc = "send",
                                          ![s].details = details,
                                          ![s].detailsOk = ok,
                                          ![s].degraded =
                                            IF ok THEN @
                                            ELSE Append(@, c.newCommits[c.i].sha)]
              /\ lastError' = NoError
              /\ UNCHANGED timers
  /\ UNCHANGED <<variant, github, pushed, channels, trackerFile, probe>>

\* const fakePayload = { commits: [enhancedCommit], repository: ..., ref }
FakePayload(c) ==
  [ commits    |-> << Enhance(c.newCommits[c.i], c.details) >>,
    repository |-> [name |-> IF variant = "single" THEN "berghain-bot"
                             ELSE REPO_CONFIG[c.repo].displayName],
    ref        |-> "refs/heads/main" ]

\* The message channel.send({ embeds: [embed] }) leaves in the channel, with
\* the fields of the embed that are read again
Message(embed) ==
  [ author |-> BOT,
    embeds |-> << [url |-> embed.url, footer |-> embed.footer] >> ]

\* A loop that leaves for the cursor write after its first delivery
LoopNext_WritesFirst(c) == "write"

\* for (const commit of newCommits) { ... }: after a delivery the loop takes
\* the next commit, and after the last one the call goes on to the write
LoopNext(c) == IF c.i = Len(c.newCommits) THEN "write" ELSE "enrich"

\* const embed = createCommitEmbed(fakePayload);
\* await channel.send({ embeds: [embed] }), then the next commit of the loop.
\* The send returns or throws; once MaxMessages notifications are delivered
\* it can only throw.
Send(s, faults) ==
  LET c == cycles[s]
      embed == createCommitEmbed(FakePayload(c))
  IN
  /\ c.pc = "send"
  /\ \E ok \in Outcomes(faults) :
       IF ok
         THEN /\ Delivered < MaxMessages
              /\ channels' = [channels EXCEPT ![c.repo] = Append(@, Message(embed))]
              /\ cycles' = [cycles EXCEPT
                   ![s].pc = LoopNext(c),
                   ![s].i = c.i + 1,
                   ![s].details = Idle.details,
                   ![s].detailsOk = TRUE,
                   ![s].sent = Append(c.sent, embed.url)]
              /\ lastError' = NoError
              /\ UNCHANGED timers
         ELSE /\ Fail(s, "send")
              /\ UNCHANGED channels
  /\ UNCHANGED <<variant, github, pushed, trackerFile, probe>>

\* The arguments of the cycle's updateLastSeenCommit call:
\* bot.js            updateLastSeenCommit(newCommits[newCommits.length - 1].sha)
\* REPO_CONFIG poller updateLastSeenCommit(repoConfig.repo, newCommits[...].sha)
\* the second being taken as metadata: the default {}, or the sha, a string
UpdateArguments(c) ==
  LET last == c.newCommits[Len(c.newCommits)].sha IN
  IF variant = "single" THEN <<last, NoProperties>>
  ELSE <<REPO_CONFIG[c.repo].repo, NoProperties>>

\* await updateLastSeenCommit(...): a failed write throws and leaves the file
Write(s, faults) ==
  LET c == cycles[s]
      args == UpdateArguments(c)
  IN
  /\ c.pc = "write"
  /\ \E ok \in Outcomes(faults) :
       IF ok
         THEN /\ trackerFile' = TrackerRecord(args[1], args[2])
              /\ cycles' = [cycles EXCEPT ![s] = Idle]
              /\ lastError' = NoError
              /\ UNCHANGED timers
         ELSE /\ Fail(s, "write")
              /\ UNCHANGED trackerFile
  /\ UNCHANGED <<variant, github, pushed, channels, probe>>

\* resetTracking(): the tracker file is unlinked
resetTracking ==
  /\ trackerFile.exists
  /\ trackerFile' = NoFile
  /\ lastError' = NoError
  /\ UNCHANGED <<variant, github, pushed, channels, timers, cycles, probe>>

\* The process exits and is started again: timers and calls in flight are
\* gone, the tracker file and the channels stay.  Without faults the process
\* exits between calls.
Restart(faults) ==
  /\ \E r \in AllRepos : timers[r].interval
  /\ faults \/ \A s \in Slots : ~Active(cycles[s])
  /\ timers' = [r \in AllRepos |-> NoTimers]
  /\ cycles' = [s \in Slots |-> Idle]
  /\ lastError' = NoError
  /\ UNCHANGED <<variant, github, pushed, channels, trackerFile, probe>>

\* A commit is pushed to repository r (the model pushes to REPO_CONFIG[1];
\* the other repositories keep their one commit)
Push(r) ==
  /\ r = 1
  /\ pushed[r] < MaxCommits
  /\ pushed' = [pushed EXCEPT ![r] = @ + 1]
  /\ github' = [github EXCEPT ![r] = <<pushed[r] + 1>> \o @]
  /\ lastError' = NoError
  /\ UNCHANGED <<variant, channels, trackerFile, timers, cycles, probe>>

Next ==
  \/ Ready
  \/ \E r \in AllRepos : InitialCheck(r, TRUE, TRUE)
  \/ \E r \in AllRepos : IntervalTick(r, TRUE, TRUE)
  \/ \E s \in Slots : Detect(s, TRUE)
  \/ \E s \in Slots : Enrich(s)
  \/ \E s \in Slots : Send(s, TRUE)
  \/ \E s \in Slots : Write(s, TRUE)
  \/ resetTracking
  \/ Restart(TRUE)
  \/ \E r \in AllRepos : Push(r)

Spec == Init /\ [][Next]_vars

\* The behaviours with no fault: every cursor read, channel lookup, delivery
\* and cursor write succeeds, the calls of one repository do not overlap,
\* the process restarts between calls.  Requests to GitHub may fail.
NextNominal ==
  \/ Ready
  \/ \E r \in AllRepos : InitialCheck(r, FALSE, FALSE)
  \/ \E r \in AllRepos : IntervalTick(r, FALSE, FALSE)
  \/ \E s \in Slots : Detect(s, FALSE)
  \/ \E s \in Slots : Enrich(s)
  \/ \E s \in Slots : Send(s, FALSE)
  \/ \E s \in Slots : Write(s, FALSE)
  \/ Restart(FALSE)
  \/ \E r \in AllRepos : Push(r)

SpecNominal == Init /\ [][NextNominal]_vars

\* The behaviours in which the calls of one repository do not overlap and
\* nobody resets the tracker, with every fault admitted
NextSerial ==
  \/ Ready
  \/ \E r \in AllRepos : InitialCheck(r, TRUE, FALSE)
  \/ \E r \in AllRepos : IntervalTick(r, TRUE, FALSE)
  \/ \E s \in Slots : Detect(s, TRUE)
  \/ \E s \in Slots : Enrich(s)
  \/ \E s \in Slots : Send(s, TRUE)
  \/ \E s \in Slots : Write(s, TRUE)
  \/ Restart(TRUE)
  \/ \E r \in AllRepos : Push(r)

SpecSerial == Init /\ [][NextSerial]_vars

\* The await the call in slot s is at returns or throws
CycleStep(s) == Detect(s, TRUE) \/ Enrich(s) \/ Send(s, TRUE) \/ Write(s, TRUE)

\* The behaviours while the process stays alive, calls of one repository
\* not overlapping, when every network or file call of a call in flight
\* eventually returns or throws: the step a call waits for is eventually
\* taken.  Every step of a call may fail; the cursor read at its start,
\* which catches its own errors, gives the cursor.  Timers and pushes are
\* not forced.
NextAlive ==
  \/ Ready
  \/ \E r \in AllRepos : InitialCheck(r, FALSE, FALSE)
  \/ \E r \in AllRepos : IntervalTick(r, FALSE, FALSE)
  \/ \E s \in Slots : CycleStep(s)
  \/ \E r \in AllRepos : Push(r)

SpecAliveFair ==
  /\ Init
  /\ [][NextAlive]_vars
  /\ \A r \in AllRepos :
       WF_vars(\E s \in Slots : cycles[s].repo = r /\ CycleStep(s))

\* ------------------------------------------------ detection on drawn inputs
\* Windows: the commits endpoint answers with at least one commit, newest
\* first, no commit twice.
RECURSIVE Windows(_)
Windows(n) ==
  IF n = 0 THEN {<<>>}
  ELSE LET shorter == Windows(n - 1)
           longest == {v \in shorter : Len(v) = n - 1}
           Fresh(k, v) == \A i \in 1..Len(v) : v[i] # k
           pairs == {p \in (1..ProbeCommits) \X longest : Fresh(p[1], p[2])}
       IN  shorter \cup { <<p[1]>> \o p[2] : p \in pairs }

ProbeWindows == Windows(ProbeCommits) \ {<<>>}

\* Cursors: none, the sha of a commit, or its short form
ProbeCursors ==
  {null, ""} \cup {GithubSha(1, n) : n \in 1..ProbeCommits}
             \cup {Substring0(GithubSha(1, n), SHORT_LEN) : n \in 1..ProbeCommits}

ProbeHistory(w) == [i \in 1..Len(w) |-> GithubCommit(1, w[i])]

InitDetect ==
  /\ variant = "single"
  /\ github = [r \in AllRepos |-> <<1>>]
  /\ pushed = [r \in AllRepos |-> 1]
  /\ channels = [r \in AllRepos |-> <<>>]
  /\ trackerFile = NoFile
  /\ timers = [r \in AllRepos |-> NoTimers]
  /\ cycles = [s \in Slots |-> Idle]
  /\ lastError = NoError
  /\ \E ok \in BOOLEAN, w \in ProbeWindows, cursor \in ProbeCursors :
       probe = [fn |-> "checkForNewCommits", ok |-> ok, window |-> w,
                cursor |-> cursor, returned |-> FALSE,
                out |-> [threw |-> FALSE, value |-> <<>>]]

ApplyDetect ==
  /\ probe.fn = "checkForNewCommits"
  /\ ~probe.returned
  /\ probe' = [probe EXCEPT
       !.returned = TRUE,
       !.out = checkForNewCommits(probe.ok, ProbeHistory(probe.window),
                                  probe.cursor)]
  /\ UNCHANGED <<variant, github, pushed, channels, trackerFile, timers,
                 cycles, lastError>>

NextDetect == ApplyDetect

SpecDetect == InitDetect /\ [][NextDetect]_vars

\* Position of the commit with this sha in a window of commit numbers, 0
\* when it is not there
PositionIn(w, sha) ==
  IF \E i \in 1..Len(w) : GithubSha(1, w[i]) = sha
    THEN CHOOSE i \in 1..Len(w) : GithubSha(1, w[i]) = sha
    ELSE 0

Detected == probe.fn = "checkForNewCommits" /\ probe.returned /\ probe.ok

\* C3: for a cursor that occurs in the window at position k, detection
\* returns exactly the k-1 commits before it, oldest first: the j-th
\* returned commit is the one at position k-j; nothing at or after k is
\* returned, and nothing at all when k = 1.
C3_PrefixReversed ==
  LET w == probe.window
      k == PositionIn(w, probe.cursor)
      value == probe.out.value
  IN  (Detected /\ k > 0) =>
        /\ ~probe.out.threw
        /\ Len(value) = k - 1
        /\ \A j \in 1..Len(value) : value[j].sha = GithubSha(1, w[k - j])
        /\ \A j \in 1..Len(value), m \in k..Len(w) :
              value[j].sha # GithubSha(1, w[m])

\* window [c5,c4,c3,c2,c1], cursor c3: [c4,c5] was returned
C3_Witness ==
  /\ Detected
  /\ probe.window = <<5, 4, 3, 2, 1>>
  /\ probe.cursor = GithubSha(1, 3)
  /\ Len(probe.out.value) = 2
  /\ probe.out.value[1].sha = GithubSha(1, 4)
  /\ probe.out.value[2].sha = GithubSha(1, 5)

\* C4: with no cursor, detection returns exactly one commit, the newest of
\* the window.
C4_FirstRunNewestOnly ==
  (Detected /\ probe.cursor = null) =>
    /\ ~probe.out.threw
    /\ Len(probe.out.value) = 1
    /\ probe.out.value[1].sha = GithubSha(1, probe.window[1])

C4_Witness ==
  /\ Detected
  /\ probe.cursor = null
  /\ Len(probe.window) = 3
  /\ Len(probe.out.value) = 1

\* C5: with a cursor that is not in the window, detection returns normally
\* exactly one commit, the newest of the window; the commits after it in
\* the window are not returned.
C5_AbsentCursorNewestOnly ==
  (Detected /\ ~Falsy(probe.cursor)
     /\ PositionIn(probe.window, probe.cursor) = 0) =>
    /\ ~probe.out.threw
    /\ Len(probe.out.value) = 1
    /\ probe.out.value[1].sha = GithubSha(1, probe.window[1])

\* window [c5,c4,c3], cursor c1: only c5 was returned
C5_Witness ==
  /\ Detected
  /\ probe.window = <<5, 4, 3>>
  /\ probe.cursor = GithubSha(1, 1)
  /\ Len(probe.out.value) = 1
  /\ probe.out.value[1].sha = GithubSha(1, 5)

\* ----------------------------------------------------- the poll cycle
\* The url of the embed of the i-th message of repository r's channel
UrlAt(r, i) == channels[r][i].embeds[1].url

\* The commits of repository r that were delivered to its channel
DeliveredCommits(r) ==
  {n \in 1..pushed[r] :
     \E i \in 1..Len(channels[r]) : UrlAt(r, i) = GithubCommit(r, n).html_url}

\* C1: with every cursor read, delivery and cursor write succeeding, calls
\* of one repository not overlapping and restarts between calls, no channel
\* holds two notifications of the same commit.
C1_NoCommitDeliveredTwice ==
  \A r \in AllRepos : \A i, j \in 1..Len(channels[r]) :
    i # j => UrlAt(r, i) # UrlAt(r, j)

\* C2: the stored cursor is absent or the id of a commit that was delivered
\* for a polled repository.
C2_CursorIsDeliveredCommit ==
  trackerFile.exists =>
    \E r \in Repos : \E n \in DeliveredCommits(r) :
      trackerFile.lastCommitSha = GithubSha(r, n)

\* sha is the id of a commit of repository r that is base or newer than base
AtOrPast(r, sha, base) ==
  \E i, j \in 1..Len(github[r]) :
    /\ i <= j
    /\ GithubSha(r, github[r][i]) = sha
    /\ GithubSha(r, github[r][j]) = base

\* The step is the call in slot s ending with an error caught at its boundary
FailsAt(s) ==
  /\ Active(cycles[s])
  /\ ~Active(cycles'[s])
  /\ lastError'.stage # "none"
  /\ lastError'.repo = cycles[s].repo

\* The step is the call in slot s returning from its cursor write
Completes(s) ==
  /\ cycles[s].pc = "write"
  /\ ~Active(cycles'[s])
  /\ lastError' = NoError
  /\ timers' = timers

\* C6: when a call fails, whatever the step, the cursor the next call of
\* the repository reads is the stored cursor the failed call started with
\* (calls of one repository not overlapping, nobody resetting the tracker).
C6_FailedCycleKeepsCursor ==
  [][\A s \in Slots : \A r \in AllRepos :
       (FailsAt(s) /\ cycles[s].repo = r) =>
         CursorRead(r)' = cycles[s].start]_vars

\* C7: a step on which a call of repository r fails leaves every timer as it
\* was, r's repeating timer set, and changes no call, channel or pending
\* timer of another repository.
C7_ErrorContained ==
  [][\A s \in Slots :
       FailsAt(s) =>
         LET r == cycles[s].repo IN
         /\ timers' = timers
         /\ timers'[r].interval
         /\ \A t \in Slots \ {s} : cycles'[t] = cycles[t]
         /\ \A q \in AllRepos \ {r} : channels'[q] = channels[q]]_vars

\* a call of one repository has just failed while a call of another
\* repository is in flight, and the failed repository's timer is still set
C7_Witness ==
  /\ lastError.stage # "none"
  /\ timers[lastError.repo].interval
  /\ \E t \in Slots : Active(cycles[t]) /\ cycles[t].repo # lastError.repo

\* C8: the embed built for a commit whose enrichment request failed shows
\* "No files changed" and "No changes", and a call that delivered such a
\* commit and returns from its cursor write has stored a cursor that is that
\* commit or a newer one.
C8_DegradedPayloadAndCursor ==
  [][\A s \in Slots :
       LET c == cycles[s] IN
       /\ (c.pc = "send" /\ ~c.detailsOk) =>
             /\ createCommitEmbed(FakePayload(c)).files = NO_FILES
             /\ createCommitEmbed(FakePayload(c)).changes = NO_CHANGES
       /\ (Completes(s) /\ c.degraded # <<>>) =>
             /\ trackerFile'.exists
             /\ \A k \in 1..Len(c.degraded) :
                   AtOrPast(c.repo, trackerFile'.lastCommitSha, c.degraded[k])
    ]_vars

\* C9: no call fails at enrichment, and a call has delivered, in detection
\* order, every commit before the one it is working on (all of them when it
\* reaches the cursor write), whichever enrichment requests failed.
C9_EnrichmentFailureDropsNothing ==
  /\ lastError.stage # "enrich"
  /\ \A s \in Slots :
       LET c == cycles[s] IN
       c.pc \in {"enrich", "send", "write"} =>
         /\ c.i = (IF c.pc = "write" THEN Len(c.newCommits) + 1 ELSE c.i)
         /\ Len(c.sent) = c.i - 1
         /\ \A j \in 1..Len(c.sent) : c.sent[j] = c.newCommits[j].url
         /\ \A k \in 1..Len(c.degraded) :
               \E j \in 1..c.i : /\ j <= Len(c.newCommits)
                                  /\ c.newCommits[j].sha = c.degraded[k]
                                  /\ (j = c.i => c.pc = "send")

\* a call detected two commits, the enrichment of the first failed, and
\* both are delivered
C9_Witness ==
  \E s \in Slots :
    /\ cycles[s].pc = "write"
    /\ Len(cycles[s].newCommits) = 2
    /\ cycles[s].degraded # <<>>
    /\ cycles[s].degraded[1] = cycles[s].newCommits[1].sha
    /\ Len(cycles[s].sent) = 2

\* C10: deliveries leave no gap after the first delivered commit: when a
\* commit is delivered, every commit between an earlier delivered commit
\* and it is delivered too.  (A commit passed over is not looked at again:
\* the cursor only moves to the newest delivered commit.)
C10_NoCommitSkipped ==
  \A r \in Repos : \A k, n \in DeliveredCommits(r) : \A m \in 1..pushed[r] :
    (k < m /\ m < n) => m \in DeliveredCommits(r)

\* The commits a call of repository r would detect in the state after the
\* step, reading the cursor and the commits endpoint without a fault
DetectedNext(r) == checkForNewCommits(TRUE, History(r), CursorRead(r)).value'

C12_ChannelMissingAdvancesCursor ==
  [][\A s \in Slots : \A r \in AllRepos :
       LET detected == checkForNewCommits(TRUE, History(r), cycles[s].lastSeen).value
       IN  (/\ cycles[s].repo = r
            /\ DetectWith(s, TRUE, FALSE)
            /\ Len(detected) > 0) =>
             /\ lastError'.stage = "none"
             /\ ~Active(cycles'[s])
             /\ trackerFile'.exists
             /\ trackerFile'.lastCommitSha = detected[Len(detected)].sha
    ]_vars

\* The step starts a call of repository r in slot s
Starts(s, r) ==
  /\ ~Active(cycles[s])
  /\ cycles'[s].pc = "detect"
  /\ cycles'[s].repo = r

\* C13: the cursor read raises nothing and gives the stored cursor or none,
\* none when there is no stored cursor; a call that read none detects
\* exactly the newest commit of the window and delivers nothing else.
C13_ReadFailureSeedsNewest ==
  [][\A s \in Slots : \A r \in AllRepos :
       /\ Starts(s, r) =>
            /\ lastError'.stage = "none"
            /\ cycles'[s].lastSeen \in {null, CursorRead(r)}
            /\ (variant = "single" /\ ~trackerFile.exists) =>
                  cycles'[s].lastSeen = null
       /\ (/\ cycles[s].repo = r
           /\ cycles[s].pc = "detect"
           /\ cycles[s].lastSeen = null
           /\ cycles'[s].pc = "enrich") =>
             /\ Len(cycles'[s].newCommits) = 1
             /\ cycles'[s].newCommits[1].sha = GithubSha(r, github[r][1])
       /\ (Active(cycles[s]) /\ cycles[s].lastSeen = null) =>
             /\ Len(cycles[s].newCommits) <= 1
             /\ Len(cycles[s].sent) <= 1
    ]_vars

\* the tracker file holds a cursor and a commit was delivered, yet the call
\* read none and detected only the newest of the two commits not yet
\* delivered
C13_Witness ==
  /\ variant = "single"
  /\ trackerFile.exists
  /\ Len(channels[1]) > 0
  /\ \E s \in Slots :
       /\ cycles[s].pc = "enrich"
       /\ cycles[s].lastSeen = null
       /\ cycles[s].start = GithubSha(1, 1)
       /\ github[1] = <<3, 2, 1>>
       /\ Len(cycles[s].newCommits) = 1
       /\ cycles[s].newCommits[1].sha = GithubSha(1, 3)

\* ------------------------------------------- the tracker on drawn inputs
\* A cursor write followed by a cursor read.  how = "direct": the caller
\* passes the commit id and the metadata; how = "cycle": the call is the one
\* the poll cycle makes for a batch ending with the commit.
ProbeIds == {GithubSha(1, 1), GithubSha(1, 2), GithubSha(2, 1)}

ProbeMetadata ==
  [author : {undefined, "alice"}, message : {undefined, "fix"},
   timestamp : {undefined, "2025-09-01T10:00:00Z"}]

InitTracker ==
  /\ variant \in {"single", "multi"}
  /\ github = [r \in AllRepos |-> <<1>>]
  /\ pushed = [r \in AllRepos |-> 1]
  /\ channels = [r \in AllRepos |-> <<>>]
  /\ trackerFile = NoFile
  /\ timers = [r \in AllRepos |-> NoTimers]
  /\ cycles = [s \in Slots |-> Idle]
  /\ lastError = NoError
  /\ \E how \in {"direct", "cycle"}, id \in ProbeIds, metadata \in ProbeMetadata :
       /\ how = "cycle" => metadata = NoProperties
       /\ probe = [fn |-> "tracker", how |-> how, id |-> id,
                   metadata |-> metadata, stage |-> "start",
                   read |-> null, info |-> getTrackingInfo(NoFile, TRUE)]

\* await updateLastSeenCommit(...)
ApplyWrite ==
  /\ probe.fn = "tracker"
  /\ probe.stage = "start"
  /\ \E ok \in BOOLEAN :
       LET batch == [Idle EXCEPT !.repo = 1,
                                 !.newCommits = <<[sha |-> probe.id]>>]
           args == IF probe.how = "direct" THEN <<probe.id, probe.metadata>>
                   ELSE UpdateArguments(batch)
       IN  /\ trackerFile' = IF ok THEN TrackerRecord(args[1], args[2])
                             ELSE trackerFile
           /\ probe' = [probe EXCEPT !.stage = IF ok THEN "written" ELSE "failed"]
  /\ UNCHANGED <<variant, github, pushed, channels, timers, cycles, lastError>>

\* await getLastSeenCommit(); await getTrackingInfo()
ApplyRead ==
  /\ probe.fn = "tracker"
  /\ probe.stage = "written"
  /\ \E ok \in BOOLEAN :
       probe' = [probe EXCEPT !.stage = IF ok THEN "read" ELSE "unread",
                              !.read = getLastSeenCommit(trackerFile, ok),
                              !.info = getTrackingInfo(trackerFile, ok)]
  /\ UNCHANGED <<variant, github, pushed, channels, trackerFile, timers,
                 cycles, lastError>>

NextTracker == ApplyWrite \/ ApplyRead

SpecTracker == InitTracker /\ [][NextTracker]_vars

\* C14: a cursor read that follows a successful cursor write gives the
\* commit id that was to be stored, and the tracking information gives the
\* metadata snapshot that was passed, a field that was absent being absent.
C14_WriteReadRoundTrip ==
  (probe.fn = "tracker" /\ probe.stage = "read") =>
    /\ probe.read = probe.id
    /\ probe.info.hasTracking
    /\ probe.info.lastCommitSha = probe.id
    /\ probe.info.metadata = probe.metadata

\* ------------------------------------------------ order, store, overlap
\* The commit whose notification is the i-th message of repository r's channel
CommitAt(r, i) ==
  CHOOSE n \in 1..pushed[r] : GithubCommit(r, n).html_url = UrlAt(r, i)

\* C15: with every cursor read, delivery and cursor write succeeding and
\* calls of one repository not overlapping, each notification in a channel
\* is of a commit newer than the commit of the notification before it.
C15_DeliveredOldestFirst ==
  \A r \in AllRepos : \A i, j \in 1..Len(channels[r]) :
    i < j => CommitAt(r, i) < CommitAt(r, j)

\* What the cursor store answers when asked for repository r's cursor:
\* getLastSeenCommit() takes no key
StoreRead(r) == getLastSeenCommit(trackerFile, TRUE)

\* C16: the step on which a call of repository r returns from its cursor
\* write leaves the cursor the store gives for every other polled
\* repository as it was.
C16_StoreKeyedByRepository ==
  [][\A s \in Slots : \A r \in Repos : \A q \in Repos \ {r} :
       (Completes(s) /\ cycles[s].repo = r) => StoreRead(q)' = StoreRead(q)
    ]_vars

\* C17: the cursor a call passes to detection is the one the cursor store
\* holds when the call starts, and it is none or the full id of a commit
\* of the repository.
C17_CursorIsStoredFullId ==
  [][\A s \in Slots : \A r \in AllRepos :
       Starts(s, r) =>
         /\ cycles'[s].lastSeen = StoreRead(r)
         /\ \/ cycles'[s].lastSeen = null
            \/ \E n \in 1..pushed[r] : cycles'[s].lastSeen = GithubSha(r, n)
    ]_vars

\* C18: no two calls of one repository are in flight together.
C18_NoOverlapPerRepository ==
  \A s, t \in Slots :
    (s # t /\ Active(cycles[s]) /\ Active(cycles[t])) =>
      cycles[s].repo # cycles[t].repo

\* ---------------------------------------- the formatter on drawn inputs
\* A line of n characters, the i-th being the last digit of i
RECURSIVE Line(_)
Line(n) == IF n = 0 THEN "" ELSE Line(n - 1) \o ToString(n % 10)

\* What follows the first line of a commit message
ProbeBodies == {"", "\n", "\n\nbody of the message\nsecond line"}

\* n file names
Files(n) == [i \in 1..n |-> "f" \o ToString(i)]

InitFormat ==
  /\ variant = "single"
  /\ github = [r \in AllRepos |-> <<1>>]
  /\ pushed = [r \in AllRepos |-> 1]
  /\ channels = [r \in AllRepos |-> <<>>]
  /\ trackerFile = NoFile
  /\ timers = [r \in AllRepos |-> NoTimers]
  /\ cycles = [s \in Slots |-> Idle]
  /\ lastError = NoError
  /\ \/ \E n \in 0..MaxTitle, body \in ProbeBodies :
          probe = [fn |-> "formatCommitMessage", n |-> n, body |-> body,
                   returned |-> FALSE, out |-> ""]
     \/ \E a \in 0..MaxCount, r \in 0..MaxCount, m \in 0..MaxCount :
          probe = [fn |-> "formatChangeStats", added |-> a, removed |-> r,
                   modified |-> m, returned |-> FALSE, out |-> ""]
     \/ \E a \in 0..MaxCount, r \in 0..MaxCount, m \in 0..MaxCount :
          probe = [fn |-> "formatFileChanges", added |-> a, removed |-> r,
                   modified |-> m, returned |-> FALSE, out |-> "", color |-> 0]
     \/ \E r \in AllRepos, k \in 1..MaxBatch :
          \E counts \in [1..k -> [added : 0..MaxBatchFiles,
                                  modified : 0..MaxBatchFiles,
                                  removed : 0..MaxBatchFiles]] :
            probe = [fn |-> "createCommitEmbed", repo |-> r, counts |-> counts,
                     returned |-> FALSE, out |-> NoEmbed, extracted |-> null]

ApplyTitle ==
  /\ probe.fn = "formatCommitMessage"
  /\ ~probe.returned
  /\ probe' = [probe EXCEPT
       !.returned = TRUE,
       !.out = formatCommitMessage(Line(probe.n) \o probe.body)]
  /\ UNCHANGED <<variant, github, pushed, channels, trackerFile, timers,
                 cycles, lastError>>

\* formatChangeStats(calculateTotalChanges(commits)), as createCommitEmbed
\* calls them, for one commit with that many files of each kind
ApplyStats ==
  /\ probe.fn = "formatChangeStats"
  /\ ~probe.returned
  /\ probe' = [probe EXCEPT
       !.returned = TRUE,
       !.out = formatChangeStats(calculateTotalChanges(
                 << [added |-> Files(probe.added),
                     removed |-> Files(probe.removed),
                     modified |-> Files(probe.modified)] >>))]
  /\ UNCHANGED <<variant, github, pushed, channels, trackerFile, timers,
                 cycles, lastError>>

\* n file names that start with kind
NamedFiles(kind, n) == [i \in 1..n |-> kind \o ToString(i)]

\* formatFileChanges(commit) and getCommitColor(commit), as createCommitEmbed
\* calls them, for a commit with that many files of each kind
ApplyFiles ==
  /\ probe.fn = "formatFileChanges"
  /\ ~probe.returned
  /\ LET commit == [added |-> NamedFiles("a", probe.added),
                    modified |-> NamedFiles("m", probe.modified),
                    removed |-> NamedFiles("r", probe.removed)]
     IN  probe' = [probe EXCEPT !.returned = TRUE,
                                !.out = formatFileChanges(commit),
                                !.color = getCommitColor(commit)]
  /\ UNCHANGED <<variant, github, pushed, channels, trackerFile, timers,
                 cycles, lastError>>

\* The push payload of repository r whose k-th commit is commit k of the
\* repository with that many files of each kind
PushPayload(r, counts) ==
  [ commits    |-> [k \in 1..Len(counts) |->
                     [transformCommitData(GithubCommit(r, k)) EXCEPT
                        !.added = NamedFiles("a", counts[k].added),
                        !.modified = NamedFiles("m", counts[k].modified),
                        !.removed = NamedFiles("r", counts[k].removed)]],
    repository |-> [name |-> REPO_CONFIG[r].repo],
    ref        |-> "refs/heads/main" ]

\* const embed = createCommitEmbed(payload); channel.send({ embeds: [embed] })
\* and then getLastCommitFromChannel on the channel that holds the message
ApplyEmbed ==
  /\ probe.fn = "createCommitEmbed"
  /\ ~probe.returned
  /\ LET embed == createCommitEmbed(PushPayload(probe.repo, probe.counts))
     IN  probe' = [probe EXCEPT
                     !.returned = TRUE,
                     !.out = embed,
                     !.extracted =
                       getLastCommitFromChannel(TRUE, TRUE, <<Message(embed)>>)]
  /\ UNCHANGED <<variant, github, pushed, channels, trackerFile, timers,
                 cycles, lastError>>

NextFormat == ApplyTitle \/ ApplyStats \/ ApplyFiles \/ ApplyEmbed

SpecFormat == InitFormat /\ [][NextFormat]_vars

\* C19: the title of a message whose first line has n characters is that
\* line when n <= 100, and otherwise its first 97 characters followed by
\* three dots, 100 characters in all; it never has more than 100.
C19_TitleTruncated ==
  (probe.fn = "formatCommitMessage" /\ probe.returned) =>
    /\ Len(probe.out) <= 100
    /\ probe.n <= 100 => probe.out = Line(probe.n)
    /\ probe.n > 100 =>
          /\ Len(probe.out) = 100
          /\ SubSeq(probe.out, 1, 97) = Line(97)
          /\ SubSeq(probe.out, 98, 100) = "..."

\* a first line of 101 characters, followed by a body, gave 100 characters
C19_Witness ==
  /\ probe.fn = "formatCommitMessage"
  /\ probe.returned
  /\ probe.n = 101
  /\ probe.body # ""
  /\ Len(probe.out) = 100

\* C20: the change string for A added, R removed and M modified files is
\* "+A", "-R", "~M", each present exactly when its count is positive, in
\* that order with one space between neighbours, and "No changes" exactly
\* when all three counts are zero.
C20_ChangeString ==
  (probe.fn = "formatChangeStats" /\ probe.returned) =>
    LET A == probe.added
        R == probe.removed
        M == probe.modified
        plus == IF A > 0 THEN "+" \o ToString(A) ELSE ""
        minus == IF R > 0 THEN "-" \o ToString(R) ELSE ""
        tilde == IF M > 0 THEN "~" \o ToString(M) ELSE ""
        first == IF A > 0 /\ (R > 0 \/ M > 0) THEN " " ELSE ""
        second == IF R > 0 /\ M > 0 THEN " " ELSE ""
    IN  /\ (A = 0 /\ R = 0 /\ M = 0) <=> probe.out = "No changes"
        /\ (A > 0 \/ R > 0 \/ M > 0) =>
              probe.out = plus \o first \o minus \o second \o tilde

\* 2 added, 1 removed, 3 modified gave "+2 -1 ~3"
C20_Witness ==
  /\ probe.fn = "formatChangeStats"
  /\ probe.returned
  /\ probe.added = 2 /\ probe.removed = 1 /\ probe.modified = 3
  /\ probe.out = "+2 -1 ~3"

\* The i-th entry of the file list of a commit with a added, m modified and
\* r removed files named a1.., m1.., r1..
EntryOf(a, m, i) ==
  IF i <= a THEN "+ a" \o ToString(i)
  ELSE IF i <= a + m THEN "~ m" \o ToString(i - a)
  ELSE "- r" \o ToString(i - a - m)

\* Entries 1..k, each on a line of its own
RECURSIVE EntryLines(_, _, _)
EntryLines(a, m, k) ==
  IF k = 0 THEN "" ELSE EntryLines(a, m, k - 1) \o "\n" \o EntryOf(a, m, k)

\* C21: the file list of a commit with n files is "No files changed" when
\* n = 0, the n entries (added, then modified, then removed, each group in
\* input order) when n <= 10, and the first 10 entries followed by
\* "... and (n-10) more" when n > 10.
C21_FileList ==
  (probe.fn = "formatFileChanges" /\ probe.returned) =>
    LET a == probe.added
        m == probe.modified
        n == probe.added + probe.modified + probe.removed
    IN  /\ n = 0 => probe.out = "No files changed"
        /\ (1 <= n /\ n <= 10) =>
              probe.out = FENCE \o "diff" \o EntryLines(a, m, n) \o FENCE
        /\ n > 10 =>
              probe.out = FENCE \o "diff" \o EntryLines(a, m, 10)
                            \o "\n... and " \o ToString(n - 10) \o " more"
                            \o FENCE

\* 12 entries gave 10 lines and "... and 2 more"
C21_Witness ==
  /\ probe.fn = "formatFileChanges"
  /\ probe.returned
  /\ probe.added = 4 /\ probe.modified = 4 /\ probe.removed = 4
  /\ probe.out = FENCE \o "diff" \o EntryLines(4, 4, 10) \o "\n... and 2 more"
                   \o FENCE

\* C22: the color is green for added and no removed files, red for removed
\* and no added files, amber for both and violet for neither, however many
\* files there are of each kind.
C22_ColorByPresence ==
  (probe.fn = "formatFileChanges" /\ probe.returned) =>
    LET hasAdded == probe.added > 0
        hasRemoved == probe.removed > 0
    IN  /\ (hasAdded /\ ~hasRemoved) <=> probe.color = GREEN
        /\ (hasRemoved /\ ~hasAdded) <=> probe.color = RED
        /\ (hasAdded /\ hasRemoved) <=> probe.color = ORANGE
        /\ (~hasAdded /\ ~hasRemoved) <=> probe.color = PURPLE

\* fewer files added than removed, and still amber
C22_Witness ==
  /\ probe.fn = "formatFileChanges"
  /\ probe.returned
  /\ probe.added = 1 /\ probe.removed = 3 /\ probe.modified = 2
  /\ probe.color = ORANGE

\* str.includes(ch) for a single character ch
Includes(str, ch) == \E i \in 1..Len(str) : SubSeq(str, i, i) = ch

\* C23: when the embed of a payload (one commit or a batch) is green and the
\* commit that gave the color has only added files, the change string has no
\* "-" term and no "~" term.
C23_GreenMeansOnlyPlus ==
  (probe.fn = "createCommitEmbed" /\ probe.returned) =>
    LET colored == probe.counts[Len(probe.counts)]
    IN  ( /\ probe.out.color = GREEN
          /\ colored.added > 0
          /\ colored.modified = 0
          /\ colored.removed = 0 ) =>
        /\ ~Includes(probe.out.changes, "-")
        /\ ~Includes(probe.out.changes, "~")

\* C27: the footer of a commit embed is the first 7 characters of the
\* commit id, the separator and the commit time, and the text before the
\* separator, as the fallback cursor extraction takes it, is exactly those
\* first 7 characters.
C27_FooterRoundTrip ==
  (probe.fn = "createCommitEmbed" /\ probe.returned) =>
    LET n == Len(probe.counts)
        short == ToString(probe.repo) \o ToString(n) \o "abcde"
    IN  /\ Len(short) = 7
        /\ probe.out.footer.text =
             short \o " * " \o "9/" \o ToString(n) \o "/2025, 10:00:00 AM"
        /\ probe.extracted = short

\* the short id of commit 22abcdef came back from the footer
C27_Witness ==
  /\ probe.fn = "createCommitEmbed"
  /\ probe.returned
  /\ probe.repo = 2
  /\ Len(probe.counts) = 2
  /\ probe.extracted = "22abcde"

\* The step is the call in slot s ending, with or without an error
Ends(s) == Active(cycles[s]) /\ ~Active(cycles'[s])

\* The step is the call in slot s returning without an error
ReturnsQuietly(s) ==
  /\ Ends(s)
  /\ lastError' = NoError
  /\ timers' = timers

IdleRepo(r) == \A s \in Slots : ~(Active(cycles[s]) /\ cycles[s].repo = r)

\* C25: every call that started eventually ends, each of its network calls
\* returning or failing, and whenever a repository is between two calls and
\* its interval timer runs, the next tick can start another call; while
\* the process is alive the interval timer of a repository never stops, so
\* there is no state in which the polling of a repository has stopped for
\* good.
C25_CyclesEndAndRestart ==
  /\ \A r \in AllRepos : ~IdleRepo(r) ~> IdleRepo(r)
  /\ [](\A r \in AllRepos :
          ( /\ timers[r].interval
            /\ \A q \in AllRepos : ~timers[q].initial
            /\ IdleRepo(r) ) => ENABLED IntervalTick(r, FALSE, FALSE))
  /\ [][\A r \in AllRepos : timers[r].interval => timers'[r].interval]_vars

\* a call delivered, failed at its cursor write and ended, and the
\* repository is between two calls with its interval timer running
C25_Witness ==
  /\ lastError.stage = "write"
  /\ lastError.repo = 1
  /\ Len(channels[1]) >= 1
  /\ timers[1].interval
  /\ IdleRepo(1)

\* The step is the initial timer of repository r firing
InitialFires(r) ==
  /\ timers[r].initial
  /\ ~timers'[r].initial
  /\ timers'[r].interval

\* C26: the initial check of the target of index i is due 5000 + i * 2000 ms
\* after the ready event, so the initial checks are due at distinct instants
\* and happen in index order; each target has one initial check, armed at
\* the ready event, and its repeating checks, 180000 ms apart, come after it.
C26_StaggeredInitialChecks ==
  [][/\ \A r \in AllRepos : InitialDelay(r) = 5000 + (r - 1) * 2000
     /\ \A q \in AllRepos : \A r \in AllRepos :
          q < r => InitialDelay(q) < InitialDelay(r)
     /\ \A r \in AllRepos : InitialDelay(r) < CHECK_INTERVAL
     /\ CHECK_INTERVAL = 3 * 60 * 1000
     /\ \A r \in AllRepos :
          InitialFires(r) =>
            /\ \A q \in AllRepos : q < r => ~timers[q].initial
            /\ \E s \in Slots : Starts(s, r)
     /\ \A r \in AllRepos :
          (~timers[r].initial /\ timers'[r].initial) =>
            \A q \in AllRepos : timers[q] = NoTimers
     /\ \A r \in AllRepos : \A s \in Slots :
          (Starts(s, r) /\ ~InitialFires(r)) =>
            /\ timers[r].interval
            /\ ~timers[r].initial
            /\ timers' = timers
    ]_vars

\* the initial check of the first target is running and the initial check
\* of the second target is still to come
C26_Witness ==
  /\ variant = "multi"
  /\ ~timers[1].initial
  /\ timers[1].interval
  /\ timers[2].initial
  /\ \E s \in Slots : cycles[s].repo = 1 /\ cycles[s].pc = "detect"

\* ------------------------------------- channel histories on drawn messages
\* formatBerghainResults(payload): the fields of the embed that are read
\* again
formatBerghainResults(payload) ==
  [ color     |-> IF payload.gameStatus = "completed" THEN GREEN ELSE RED,
    url       |-> undefined,
    footer    |-> [text |-> payload.playerName \o SEPARATOR
                              \o toLocaleString(payload.summary.completionTime)],
    timestamp |-> payload.summary.completionTime ]

\* The body of a POST /berghain-results request
ResultsPayload ==
  [ gameStatus |-> "completed", playerName |-> "alice",
    summary |-> [completionTime |-> "2025-09-05T10:00:00Z"] ]

\* The kinds of message a destination channel receives: the notification
\* of commit n, the game-results embed, the bot's reply to "hello", and a
\* message of a user
ProbeKinds ==
  {[kind |-> "commit", n |-> n] : n \in 1..2}
    \cup {[kind |-> k, n |-> 0] : k \in {"results", "hello", "user"}}

UserMessage == [kind |-> "user", n |-> 0]

\* The message of that kind as the channel history returns it
MessageOf(k) ==
  CASE k.kind = "commit" ->
         Message(createCommitEmbed(
           [ commits    |-> << transformCommitData(GithubCommit(1, k.n)) >>,
             repository |-> [name |-> REPO_CONFIG[1].displayName],
             ref        |-> "refs/heads/main" ]))
    [] k.kind = "results" -> Message(formatBerghainResults(ResultsPayload))
    [] k.kind = "hello" -> [author |-> BOT, embeds |-> <<>>]
    [] OTHER -> [author |-> "user", embeds |-> <<>>]

\* The channel received up to MaxPosts messages of any kind and then up to
\* MaxLater messages of users; posted is oldest first
InitChannel ==
  /\ variant = "multi"
  /\ github = [r \in AllRepos |-> <<1>>]
  /\ pushed = [r \in AllRepos |-> 1]
  /\ channels = [r \in AllRepos |-> <<>>]
  /\ trackerFile = NoFile
  /\ timers = [r \in AllRepos |-> NoTimers]
  /\ cycles = [s \in Slots |-> Idle]
  /\ lastError = NoError
  /\ \E k \in 0..MaxPosts, later \in 0..MaxLater :
       \E first \in [1..k -> ProbeKinds] :
         probe = [fn |-> "getLastCommitFromChannel",
                  posted |-> first \o [i \in 1..later |-> UserMessage],
                  returned |-> FALSE, out |-> null]

\* getLastCommitFromChannel('1412917309328195644') on that channel
ApplyExtract ==
  /\ probe.fn = "getLastCommitFromChannel"
  /\ ~probe.returned
  /\ LET messages == [i \in 1..Len(probe.posted) |-> MessageOf(probe.posted[i])]
     IN  probe' = [probe EXCEPT
                     !.returned = TRUE,
                     !.out = getLastCommitFromChannel(TRUE, TRUE, messages)]
  /\ UNCHANGED <<variant, github, pushed, channels, trackerFile, timers,
                 cycles, lastError>>

NextChannel == ApplyExtract

SpecChannel == InitChannel /\ [][NextChannel]_vars

\* C28: whatever was posted to the channel, the extraction gives the short
\* id of the newest commit notification among the 10 most recent messages,
\* and none when there is no commit notification among them; a game-results
\* embed never supplies the value.
C28_OnlyCommitNotifications ==
  (probe.fn = "getLastCommitFromChannel" /\ probe.returned) =>
    LET posted == probe.posted
        recent == {i \in 1..Len(posted) : i > Len(posted) - 10}
        commits == {i \in recent : posted[i].kind = "commit"}
        newest == CHOOSE i \in commits : \A j \in commits : j <= i
    IN  probe.out = IF commits = {} THEN null
                    ELSE "1" \o ToString(posted[newest].n) \o "abcde"

\* ------------------------------------------ the data directory under races
\* A mkdir without the recursive option: EEXIST when the directory exists
mkdirDataDir_NotRecursive(dirs) ==
  IF dirs > 0 THEN [threw |-> TRUE, dirs |-> dirs]
  ELSE [threw |-> FALSE, dirs |-> 1]

\* await fs.mkdir(dataDir, { recursive: true }): creates the directory when
\* it is missing and resolves without an error when it exists.  dirs is the
\* number of directories at the path.
mkdirDataDir(dirs) ==
  IF dirs > 0 THEN [threw |-> FALSE, dirs |-> dirs]
  ELSE [threw |-> FALSE, dirs |-> dirs + 1]

\* A caller of ensureDataDirectory: where it is, how many of its calls
\* returned, and whether one of its calls found the directory missing
NoCaller == [pc |-> "idle", calls |-> 0, done |-> 0, sawMissing |-> FALSE]

\* The data directory exists or not; the tracker file exists only in an
\* existing directory
InitDirectory ==
  /\ variant = "single"
  /\ github = [r \in AllRepos |-> <<1>>]
  /\ pushed = [r \in AllRepos |-> 1]
  /\ channels = [r \in AllRepos |-> <<>>]
  /\ timers = [r \in AllRepos |-> NoTimers]
  /\ cycles = [s \in Slots |-> Idle]
  /\ lastError = NoError
  /\ \E dirs \in 0..1 :
       /\ trackerFile \in {NoFile} \cup
            (IF dirs = 1 THEN {TrackerRecord(GithubSha(1, 1), NoProperties)}
             ELSE {})
       /\ probe = [fn |-> "ensureDataDirectory", dirs |-> dirs,
                   record |-> trackerFile,
                   callers |-> [c \in 1..MaxCallers |-> NoCaller]]

\* ensureDataDirectory() is called (by getLastSeenCommit,
\* updateLastSeenCommit or getTrackingInfo)
CallEnsure(c) ==
  /\ probe.fn = "ensureDataDirectory"
  /\ probe.callers[c].pc = "idle"
  /\ probe.callers[c].calls < MaxCalls
  /\ probe' = [probe EXCEPT !.callers[c].pc = "access",
                            !.callers[c].calls = @ + 1]
  /\ UNCHANGED <<variant, github, pushed, channels, trackerFile, timers,
                 cycles, lastError>>

\* await fs.access(dataDir): resolves when the directory exists, and the
\* call returns; rejects when it is missing, and the call goes to the catch
AccessDir(c) ==
  /\ probe.fn = "ensureDataDirectory"
  /\ probe.callers[c].pc = "access"
  /\ probe' = IF probe.dirs > 0
                THEN [probe EXCEPT !.callers[c].pc = "idle",
                                   !.callers[c].done = @ + 1]
                ELSE [probe EXCEPT !.callers[c].pc = "mkdir",
                                   !.callers[c].sawMissing = TRUE]
  /\ UNCHANGED <<variant, github, pushed, channels, trackerFile, timers,
                 cycles, lastError>>

\* catch (error) { await fs.mkdir(dataDir, { recursive: true }); }
MkdirDir(c) ==
  /\ probe.fn = "ensureDataDirectory"
  /\ probe.callers[c].pc = "mkdir"
  /\ LET res == mkdirDataDir(probe.dirs)
     IN  probe' = IF res.threw
                    THEN [probe EXCEPT !.callers[c].pc = "error"]
                    ELSE [probe EXCEPT !.dirs = res.dirs,
                                       !.callers[c].pc = "idle",
                                       !.callers[c].done = @ + 1]
  /\ UNCHANGED <<variant, github, pushed, channels, trackerFile, timers,
                 cycles, lastError>>

NextDirectory ==
  \E c \in 1..MaxCallers : CallEnsure(c) \/ AccessDir(c) \/ MkdirDir(c)

SpecDirectory == InitDirectory /\ [][NextDirectory]_vars

\* C29: however the calls that ensure the data directory interleave, none
\* ends with an error, a call that returned leaves exactly one directory,
\* there is never more than one, and the cursor record is what it was.
C29_EnsureDirectoryRaceSafe ==
  probe.fn = "ensureDataDirectory" =>
    /\ \A c \in 1..MaxCallers : probe.callers[c].pc # "error"
    /\ (\E c \in 1..MaxCallers : probe.callers[c].done > 0) => probe.dirs = 1
    /\ probe.dirs <= 1
    /\ trackerFile = probe.record

\* two callers both found the directory missing, both created it and both
\* returned
C29_Witness ==
  /\ probe.fn = "ensureDataDirectory"
  /\ probe.callers[1].sawMissing /\ probe.callers[1].done = 1
  /\ probe.callers[2].sawMissing /\ probe.callers[2].done = 1
  /\ probe.dirs = 1

\* C30: in the REPO_CONFIG poller a call that read a cursor from the channel
\* holds a 7-character id that is the sha of no commit of the repository;
\* when its request for the commits succeeds it never finds nothing new: it
\* detects exactly the newest commit of the window, so that commit is
\* delivered again by every call while the source is unchanged.
C30_ShortCursorNeverFound ==
  [][\A s \in Slots : \A r \in AllRepos :
       ( /\ variant = "multi"
         /\ cycles[s].pc = "detect"
         /\ cycles[s].repo = r
         /\ cycles[s].lastSeen # null ) =>
       /\ Len(cycles[s].lastSeen) = 7
       /\ \A n \in 1..MaxCommits : GithubSha(r, n) # cycles[s].lastSeen
       /\ DetectWith(s, TRUE, TRUE) => cycles'[s].pc = "enrich"
       /\ cycles'[s].pc = "enrich" =>
            /\ Len(cycles'[s].newCommits) = 1
            /\ cycles'[s].newCommits[1].sha = GithubSha(r, github[r][1])
    ]_vars

\* the one commit of an unchanged repository was delivered three times
C30_Witness ==
  /\ variant = "multi"
  /\ pushed[1] = 1
  /\ Len(channels[1]) = 3
  /\ \A i \in 1..3 : UrlAt(1, i) = GithubCommit(1, 1).html_url

\* ------------------------------------------------- the timers on a clock
\* An interval timer that starts counting when the initial check is due
IntervalDue_AfterInitial(r, k) == InitialDelay(r) + k * CHECK_INTERVAL

\* setInterval(pollForCommits, checkInterval), registered in the same
\* synchronous loop of startGitHubMonitoring as every other timer: the
\* instant, in ms after that loop, at which the k-th tick of repository r
\* is due
IntervalDue(r, k) == k * CHECK_INTERVAL

\* The instants at which a timer of the polled repositories is still to
\* fire, for initial checks pending and ticks counted per repository
PendingDue(pending, ticks) ==
  {InitialDelay(r) : r \in {q \in Repos : pending[q]}}
    \cup {IntervalDue(r, ticks[r] + 1) : r \in {q \in Repos : ticks[q] < MaxTicks}}

\* startGitHubMonitoring has registered the timers of every polled
\* repository at instant 0; never stands for "has not run"
never == 0 - 1

InitTimers ==
  /\ variant \in {"single", "multi"}
  /\ github = [r \in AllRepos |-> <<1>>]
  /\ pushed = [r \in AllRepos |-> 1]
  /\ channels = [r \in AllRepos |-> <<>>]
  /\ trackerFile = NoFile
  /\ timers = [r \in AllRepos |->
                 IF r \in Repos THEN [initial |-> TRUE, interval |-> TRUE]
                 ELSE NoTimers]
  /\ cycles = [s \in Slots |-> Idle]
  /\ lastError = NoError
  /\ probe = [fn |-> "startGitHubMonitoring", now |-> 0,
              initialAt |-> [r \in AllRepos |-> never],
              ticks |-> [r \in AllRepos |-> 0],
              tickAt |-> [r \in AllRepos |-> never]]

\* The setTimeout callback of repository r runs: no timer is due earlier
FireInitial(r) ==
  /\ probe.fn = "startGitHubMonitoring"
  /\ r \in Repos
  /\ timers[r].initial
  /\ \A d \in PendingDue([q \in AllRepos |-> timers[q].initial], probe.ticks) :
       InitialDelay(r) <= d
  /\ timers' = [timers EXCEPT ![r].initial = FALSE]
  /\ probe' = [probe EXCEPT !.now = InitialDelay(r),
                            !.initialAt[r] = InitialDelay(r)]
  /\ UNCHANGED <<variant, github, pushed, channels, trackerFile, cycles,
                 lastError>>

\* The setInterval callback of repository r runs for the next time: no
\* timer is due earlier
FireInterval(r) ==
  /\ probe.fn = "startGitHubMonitoring"
  /\ r \in Repos
  /\ timers[r].interval
  /\ probe.ticks[r] < MaxTicks
  /\ LET due == IntervalDue(r, probe.ticks[r] + 1)
     IN  /\ \A d \in PendingDue([q \in AllRepos |-> timers[q].initial],
                                 probe.ticks) : due <= d
         /\ probe' = [probe EXCEPT !.now = due,
                                   !.ticks[r] = @ + 1,
                                   !.tickAt[r] = due]
  /\ UNCHANGED <<variant, github, pushed, channels, trackerFile, timers,
                 cycles, lastError>>

NextTimers == \E r \in AllRepos : FireInitial(r) \/ FireInterval(r)

SpecTimers == InitTimers /\ [][NextTimers]_vars

\* C31: only the initial checks are staggered.  The k-th periodic check of
\* every target is due k * 180000 ms after monitoring starts, so targets
\* that have run the same number of periodic checks ran the last one at the
\* same instant, and the first periodic check of a target comes 180000 ms
\* after the start, which is earlier than 180000 ms after its initial check.
C31_OnlyInitialChecksStaggered ==
  probe.fn = "startGitHubMonitoring" =>
    \A r \in Repos :
      /\ probe.initialAt[r] # never => probe.initialAt[r] = 5000 + (r - 1) * 2000
      /\ probe.ticks[r] >= 1 =>
           /\ probe.tickAt[r] = probe.ticks[r] * 180000
           /\ probe.initialAt[r] # never
           /\ probe.tickAt[r] - (probe.ticks[r] - 1) * 180000
                < probe.initialAt[r] + 180000
           /\ \A q \in Repos :
                probe.ticks[q] = probe.ticks[r] =>
                  probe.tickAt[q] = probe.tickAt[r]

\* both targets ran their staggered initial checks and their first
\* periodic check at the same instant
C31_Witness ==
  /\ probe.fn = "startGitHubMonitoring"
  /\ variant = "multi"
  /\ probe.initialAt[1] = 5000 /\ probe.initialAt[2] = 7000
  /\ probe.ticks[1] = 1 /\ probe.ticks[2] = 1
  /\ probe.tickAt[1] = 180000 /\ probe.tickAt[2] = 180000

\* C32: when the request for the commits fails, the call ends on that step
\* without an error at its boundary, as a call that found no new commit
\* does: nothing is delivered, the cursor is not written, the timers stay;
\* no call ever ends with an error raised by detection.
C32_QueryFailureEndsQuietly ==
  [][/\ \A s \in Slots : \A channelFound \in BOOLEAN :
          (cycles[s].pc = "detect" /\ DetectWith(s, FALSE, channelFound)) =>
            /\ ReturnsQuietly(s)
            /\ cycles'[s] = Idle
            /\ cycles[s].sent = <<>>
            /\ channels' = channels
            /\ trackerFile' = trackerFile
     /\ lastError'.stage # "detect"
    ]_vars

\* the initial check, which on a first run delivers the newest commit, has
\* ended with nothing delivered, no cursor written and no error
C32_Witness ==
  /\ variant = "single"
  /\ ~timers[1].initial
  /\ timers[1].interval
  /\ \A s \in Slots : ~Active(cycles[s])
  /\ channels[1] = <<>>
  /\ ~trackerFile.exists
  /\ lastError = NoError
====
